---- MODULE Spec2Model ----
(***************************************************************************)
(* A model of mountebank's stub repository (src/models/stubRepository.js): *)
(* predicate matching (trueForAll, matchesPredicate), stub selection       *)
(* (findFirstMatch), addStub, and resolve with its resolver promise and    *)
(* the callbacks given to done.  Three specifications: SpecMatch evaluates *)
(* one stub's predicates against one request; Spec runs the repository     *)
(* under every interleaving of addStub, resolve and resolver completions;  *)
(* SpecClock does the same with a running clock.  A fourth, SpecStop, runs *)
(* the stop command of bin/mb against the pidfile and the server process.  *)
(*                                                                         *)
(* JavaScript values are records [t, v, kv]: t is the kind of the value,   *)
(* v the content of a scalar, kv the (key, value) entries of an object in  *)
(* insertion order, which is the order Object.keys reports.                *)
(***************************************************************************)
EXTENDS Integers, Sequences, FiniteSets, TLC

VARIABLES
    stubs,      \* the repository's stub list: [predicates, responses, matches]
    calls,      \* one record per resolve call: its closure and its promises
    added,      \* history: the stubs handed to addStub, in call order
    now,        \* the wall clock read by new Date()
    mStub,      \* matching specification: the stub whose predicates are evaluated
    mRequest,   \* matching specification: the request
    mResult,    \* matching specification: the outcome of the evaluation
    cli         \* the stop command of bin/mb, the pidfile and the server process

vars == <<stubs, calls, added, now, mStub, mRequest, mResult, cli>>

-----------------------------------------------------------------------------
(* Bounds *)

MaxStubs == 2       \* addStub calls
MaxCalls == 3       \* resolve calls
MaxOps == 4         \* addStub and resolve calls together
MaxResponses == 2   \* response descriptors configured on one stub
MaxClock == 1       \* clock ticks
MaxKeys == 3        \* keys in one predicate tree (matching specification)
MaxTicks == 12      \* clock ticks of 100 ms while the stop command polls
MaxPids == 2        \* server processes started, the first included

-----------------------------------------------------------------------------
(* The stop command before it is run: no pidfile (0), no server (0) *)

NotRun ==
    [pc |-> "idle", pidfile |-> 0, server |-> 0, started |-> 0, shutting |-> FALSE,
     pid |-> 0, signalled |-> FALSE, startTime |-> 0, clock |-> 0, due |-> 0,
     how |-> "none"]

-----------------------------------------------------------------------------
(* JavaScript values *)

Undefined == [t |-> "undefined", v |-> "", kv |-> <<>>]
Null == [t |-> "null", v |-> "", kv |-> <<>>]
Str(s) == [t |-> "string", v |-> s, kv |-> <<>>]
Num(s) == [t |-> "number", v |-> s, kv |-> <<>>]
Bool(s) == [t |-> "boolean", v |-> s, kv |-> <<>>]
Arr == [t |-> "array", v |-> "", kv |-> <<>>]
Obj(kv) == [t |-> "object", v |-> "", kv |-> kv]

\* typeof x
typeof(x) ==
    CASE x.t = "undefined" -> "undefined"
      [] x.t \in {"null", "array", "object"} -> "object"
      [] OTHER -> x.t

\* util.isArray(x)
isArray(x) == x.t = "array"

\* Object.keys(obj) of an object: its own keys in insertion order
ObjectKeys(obj) == [i \in 1..Len(obj.kv) |-> obj.kv[i].k]

\* obj[key]
Get(obj, key) ==
    IF \E i \in 1..Len(obj.kv) : obj.kv[i].k = key
    THEN obj.kv[CHOOSE i \in 1..Len(obj.kv) : obj.kv[i].k = key].v
    ELSE Undefined

Min(S) == CHOOSE x \in S : \A y \in S : x <= y

-----------------------------------------------------------------------------
(* Outcomes of an evaluation: a boolean or a thrown error, together with   *)
(* the operator invocations made on the way, in order.                     *)

Ok(b, trace) == [err |-> "none", msg |-> "", val |-> b, trace |-> trace]
Throw(kind, msg, trace) == [err |-> kind, msg |-> msg, val |-> FALSE, trace |-> trace]

\* errors.ValidationError(message, ...)
ValidationError(msg) == Throw("ValidationError", msg, <<>>)

\* what Object.keys(null) raises
KeysTypeError == Throw("TypeError", "Cannot convert undefined or null to object", <<>>)

-----------------------------------------------------------------------------
(* The operator registry, require('./predicates').  A request is a         *)
(* function from field names to string values.                              *)

OperatorNames == {"equals"}

\* predicates[key] is truthy
Recognized(key) == key \in OperatorNames

\* predicates[key](fieldName, expected, request)
Operator(key, fieldName, expected, request) ==
    /\ key = "equals"
    /\ fieldName \in DOMAIN request
    /\ expected = Str(request[fieldName])

Invocation(key, fieldName, expected) == [op |-> key, field |-> fieldName, arg |-> expected]

-----------------------------------------------------------------------------
(* Matching *)

RECURSIVE ConcatTraces(_, _)
ConcatTraces(results, n) ==
    IF n = 0 THEN <<>> ELSE ConcatTraces(results, n - 1) \o results[n].trace

\* Object.keys(obj).map(predicate).every(identity), given as results what
\* predicate yields for each key of obj in order: map calls predicate on
\* every key before every looks at any result; an exception thrown by
\* predicate for one key ends the map there.
trueForAll(obj, results) ==
    IF obj.t \in {"null", "undefined"} THEN KeysTypeError
    ELSE LET keys == ObjectKeys(obj)
             thrown == {i \in 1..Len(keys) : results[i].err # "none"}
         IN  IF thrown # {}
             THEN LET i == Min(thrown)
                  IN  Throw(results[i].err, results[i].msg, ConcatTraces(results, i))
             ELSE Ok(\A i \in 1..Len(keys) : results[i].val,
                     ConcatTraces(results, Len(keys)))

\* matchesPredicate recursing without extending the field name
RECURSIVE matchesPredicate_flat(_, _, _)
matchesPredicate_flat(fieldName, predicate, request) ==
    IF typeof(predicate) # "object" \/ isArray(predicate)
    THEN ValidationError("predicate must be an object")
    ELSE trueForAll(predicate, [i \in 1..Len(predicate.kv) |->
            LET key == ObjectKeys(predicate)[i]
            IN  IF Recognized(key)
                THEN Ok(Operator(key, fieldName, Get(predicate, key), request),
                        <<Invocation(key, fieldName, Get(predicate, key))>>)
                ELSE IF typeof(Get(predicate, key)) = "object"
                THEN matchesPredicate_flat(fieldName, Get(predicate, key), request)
                ELSE ValidationError("no predicate '" \o key \o "'")])

RECURSIVE matchesPredicate(_, _, _)
matchesPredicate(fieldName, predicate, request) ==
    IF typeof(predicate) # "object" \/ isArray(predicate)
    THEN ValidationError("predicate must be an object")
    ELSE trueForAll(predicate, [i \in 1..Len(predicate.kv) |->
            LET key == ObjectKeys(predicate)[i]
            IN  IF Recognized(key)
                THEN Ok(Operator(key, fieldName, Get(predicate, key), request),
                        <<Invocation(key, fieldName, Get(predicate, key))>>)
                ELSE IF typeof(Get(predicate, key)) = "object"
                THEN matchesPredicate(fieldName \o "." \o key, Get(predicate, key), request)
                ELSE ValidationError("no predicate '" \o key \o "'")])

\* the filter callback of findFirstMatch
stubMatches(stub, request) ==
    LET predicates == IF stub.predicates.t \in {"undefined", "null"}
                      THEN Obj(<<>>) ELSE stub.predicates
    IN  trueForAll(predicates, [i \in 1..Len(predicates.kv) |->
            LET fieldName == ObjectKeys(predicates)[i]
            IN  matchesPredicate(fieldName, Get(predicates, fieldName), request)])

-----------------------------------------------------------------------------
(* Inputs of the matching specification: predicate trees with at most      *)
(* MaxKeys keys in total, over one operator name and two other names, and  *)
(* requests over two field names.                                          *)

Keys == {"equals", "path", "x"}

Leaves == {Str("a"), Num("1"), Bool("true"), Arr, Null}

KeysOf(obj) == {obj.kv[i].k : i \in 1..Len(obj.kv)}

\* the object with entry (k, v) put in front of the entries of rest
Cons(k, v, rest) == Obj(<<[k |-> k, v |-> v]>> \o rest.kv)

\* the predicate trees with exactly n keys in total, given those of every
\* smaller size: the first entry's value is a leaf or a tree of i keys
RECURSIVE TreesFrom(_, _, _)
TreesFrom(smaller, n, i) ==
    IF i < 0 THEN {}
    ELSE {Cons(kr[1], v, kr[2]) :
             kr \in {p \in Keys \X smaller[n - 1 - i] : p[1] \notin KeysOf(p[2])},
             v \in (IF i = 0 THEN Leaves ELSE {}) \cup smaller[i]}
         \cup TreesFrom(smaller, n, i - 1)

RECURSIVE TreesOfSize(_)
TreesOfSize(n) ==
    IF n = 0 THEN {Obj(<<>>)}
    ELSE TreesFrom([i \in 0..(n - 1) |-> TreesOfSize(i)], n, n - 1)

RECURSIVE Trees(_)
Trees(n) == IF n = 0 THEN TreesOfSize(0) ELSE TreesOfSize(n) \cup Trees(n - 1)

RequestFields == {"path", "path.x"}

Requests == UNION {[S -> {"a"}] : S \in SUBSET RequestFields}

NotEvaluated == [err |-> "pending", msg |-> "", val |-> FALSE, trace |-> <<>>]

-----------------------------------------------------------------------------
(* The matching specification: one stub's predicates evaluated against one *)
(* request, as the filter callback of findFirstMatch does.                 *)

InitMatch ==
    /\ stubs = <<>>
    /\ calls = <<>>
    /\ added = <<>>
    /\ now = 0
    /\ mStub \in {[predicates |-> p] : p \in {Undefined} \cup Trees(MaxKeys)}
    /\ mRequest \in Requests
    /\ mResult = NotEvaluated
    /\ cli = NotRun

Match ==
    /\ mResult = NotEvaluated
    /\ mResult' = stubMatches(mStub, mRequest)
    /\ UNCHANGED <<stubs, calls, added, now, mStub, mRequest, cli>>

NextMatch == Match

SpecMatch == InitMatch /\ [][NextMatch]_vars

-----------------------------------------------------------------------------
(* The repository *)

\* a response descriptor { is: body }; body 0 stands for the empty object
Is(body) == [is |-> body]

\* the descriptor of the implicit stub, { is: {} }
ImplicitDescriptor == Is(0)

\* an implicit stub answering with another descriptor
ImplicitStub_other == [predicates |-> Undefined, responses |-> <<Is(1)>>, matches |-> <<>>]

\* the stub resolve falls back to, { responses: [{ is: {} }] }
ImplicitStub == [predicates |-> Undefined, responses |-> <<ImplicitDescriptor>>, matches |-> <<>>]

\* stands for "no object" in a call that did not fall back
NoStub == [predicates |-> Undefined, responses |-> <<>>, matches |-> <<>>]

\* new Date().toJSON(): the clock reading as zero-padded decimal digits, so
\* that timestamps compare as the strings compare
DateToJSON(t) == <<(t \div 100) % 10, (t \div 10) % 10, t % 10>>

\* s <= t for two timestamps, compared as strings
TimestampLeq(s, t) ==
    \/ s = t
    \/ \E i \in 1..3 : s[i] < t[i] /\ \A j \in 1..(i - 1) : s[j] = t[j]

\* findFirstMatch returning the last matching stub
findFirstMatch_last(list, request) ==
    IF Len(list) = 0 THEN [err |-> "none", msg |-> "", idx |-> 0]
    ELSE LET results == [i \in 1..Len(list) |-> stubMatches(list[i], request)]
             thrown == {i \in 1..Len(list) : results[i].err # "none"}
             matches == {i \in 1..Len(list) : results[i].val}
         IN  IF thrown # {}
             THEN [err |-> results[Min(thrown)].err, msg |-> results[Min(thrown)].msg, idx |-> 0]
             ELSE IF matches = {} THEN [err |-> "none", msg |-> "", idx |-> 0]
             ELSE [err |-> "none", msg |-> "", idx |-> CHOOSE i \in matches : \A j \in matches : j <= i]

\* findFirstMatch taking a stub whose predicates throw for one that does not match
findFirstMatch_skipping(list, request) ==
    IF Len(list) = 0 THEN [err |-> "none", msg |-> "", idx |-> 0]
    ELSE LET results == [i \in 1..Len(list) |-> stubMatches(list[i], request)]
             matches == {i \in 1..Len(list) : results[i].val}
         IN  IF matches = {} THEN [err |-> "none", msg |-> "", idx |-> 0]
             ELSE [err |-> "none", msg |-> "", idx |-> Min(matches)]

\* findFirstMatch: the index of the first matching stub, 0 for undefined,
\* or the error thrown while the filter ran over the stubs in order
findFirstMatch(list, request) ==
    IF Len(list) = 0 THEN [err |-> "none", msg |-> "", idx |-> 0]
    ELSE LET results == [i \in 1..Len(list) |-> stubMatches(list[i], request)]
             thrown == {i \in 1..Len(list) : results[i].err # "none"}
             matches == {i \in 1..Len(list) : results[i].val}
         IN  IF thrown # {}
             THEN [err |-> results[Min(thrown)].err, msg |-> results[Min(thrown)].msg, idx |-> 0]
             ELSE IF matches = {} THEN [err |-> "none", msg |-> "", idx |-> 0]
             ELSE [err |-> "none", msg |-> "", idx |-> Min(matches)]

\* pop() in place of shift()
Shift_pop(responses) == responses[Len(responses)]

\* the value of stub.responses.shift()
Shift(responses) == Head(responses)

\* the queue left as it was
Rotate_none(responses) == responses

\* stub.responses after shift() and push(stubResolver)
Rotate(responses) == Append(Tail(responses), Shift(responses))

\* the history replaced by the new record
PushMatch_replace(stub, match) == [stub EXCEPT !.matches = <<match>>]

\* stub.matches = stub.matches || []; stub.matches.push(match)
PushMatch(stub, match) == [stub EXCEPT !.matches = Append(@, match)]

\* inputs
RepoRequests == {("path" :> "a")}

\* predicates of stubs: none, one that holds of the request, one that does
\* not, and two malformed ones (an unknown operator with a string argument,
\* a null where a mapping belongs)
FieldEquals(field) == Obj(<<[k |-> field, v |-> Obj(<<[k |-> "equals", v |-> Str("a")]>>)]>>)

MatchingPredicates == {Undefined, FieldEquals("path")}

OtherPredicates ==
    { FieldEquals("query"),
      Obj(<<[k |-> "path", v |-> Obj(<<[k |-> "x", v |-> Str("a")]>>)]>>),
      Obj(<<[k |-> "path", v |-> Null]>>) }

ResponseQueues == {[i \in 1..k |-> Is(i)] : k \in 1..MaxResponses}

StubInputs ==
    {[predicates |-> p, responses |-> q, matches |-> <<>>] :
        p \in MatchingPredicates, q \in ResponseQueues}
    \cup {[predicates |-> p, responses |-> <<Is(1)>>, matches |-> <<>>] :
             p \in OtherPredicates}

\* the response the resolver produces for a descriptor and a request
ResolverResponse(descriptor, request) == [body |-> descriptor.is, to |-> request]

\* the reason the resolver fails with
ResolverFailure(descriptor, request) == [body |-> -1, to |-> request]

NoValue == [body |-> -2, to |-> <<>>]

Init ==
    /\ stubs = <<>>
    /\ calls = <<>>
    /\ added = <<>>
    /\ now = 0
    /\ mStub = NoStub
    /\ mRequest = <<>>
    /\ mResult = NotEvaluated
    /\ cli = NotRun

\* unshift in place of push
addStub_unshift(stub) ==
    /\ Len(stubs) < MaxStubs
    /\ Len(added) + Len(calls) < MaxOps
    /\ stubs' = <<stub>> \o stubs
    /\ added' = Append(added, stub)
    /\ UNCHANGED <<calls, now, mStub, mRequest, mResult, cli>>

addStub(stub) ==
    /\ Len(stubs) < MaxStubs
    /\ Len(added) + Len(calls) < MaxOps
    /\ stubs' = Append(stubs, stub)
    /\ added' = Append(added, stub)
    /\ UNCHANGED <<calls, now, mStub, mRequest, mResult, cli>>

\* the calls whose resolver has not settled yet
Pending == {c \in 1..Len(calls) : calls[c].resolver = "pending"}

\* resolve rotating the first stub's queue before selection has finished
resolve_rotateFirst(request) ==
    /\ Len(calls) < MaxCalls
    /\ Len(added) + Len(calls) < MaxOps
    /\ LET found == findFirstMatch(stubs, request)
       IN  IF found.err # "none"
           THEN /\ calls' = Append(calls,
                       [request |-> request, seen |-> Len(stubs),
                        stub |-> 0, implicit |-> NoStub,
                        descriptor |-> Is(0), started |-> now,
                        thrown |-> found.err,
                        resolver |-> "none", resolverValue |-> NoValue,
                        promise |-> "none", promiseValue |-> NoValue])
                /\ stubs' = [stubs EXCEPT ![1].responses = Rotate(@)]
           ELSE LET stub == IF found.idx = 0 THEN ImplicitStub ELSE stubs[found.idx]
                    stubResolver == Shift(stub.responses)
                    rotated == [stub EXCEPT !.responses = Rotate(@)]
                IN  /\ stubs' = IF found.idx = 0 THEN stubs
                                ELSE [stubs EXCEPT ![found.idx] = rotated]
                    /\ calls' = Append(calls,
                           [request |-> request, seen |-> Len(stubs),
                            stub |-> found.idx,
                            implicit |-> IF found.idx = 0 THEN rotated ELSE NoStub,
                            descriptor |-> stubResolver, started |-> now,
                            thrown |-> "none",
                            resolver |-> "pending", resolverValue |-> NoValue,
                            promise |-> "pending", promiseValue |-> NoValue])
    /\ UNCHANGED <<added, now, mStub, mRequest, mResult, cli>>

\* resolve pushing the implicit stub onto the stub list
resolve_pushImplicit(request) ==
    /\ Len(calls) < MaxCalls
    /\ Len(added) + Len(calls) < MaxOps
    /\ LET found == findFirstMatch(stubs, request)
       IN  IF found.err # "none"
           THEN /\ calls' = Append(calls,
                       [request |-> request, seen |-> Len(stubs),
                        stub |-> 0, implicit |-> NoStub,
                        descriptor |-> Is(0), started |-> now,
                        thrown |-> found.err,
                        resolver |-> "none", resolverValue |-> NoValue,
                        promise |-> "none", promiseValue |-> NoValue])
                /\ UNCHANGED stubs
           ELSE LET stub == IF found.idx = 0 THEN ImplicitStub ELSE stubs[found.idx]
                    stubResolver == Shift(stub.responses)
                    rotated == [stub EXCEPT !.responses = Rotate(@)]
                IN  /\ stubs' = IF found.idx = 0 THEN Append(stubs, rotated)
                                ELSE [stubs EXCEPT ![found.idx] = rotated]
                    /\ calls' = Append(calls,
                           [request |-> request, seen |-> Len(stubs),
                            stub |-> found.idx,
                            implicit |-> IF found.idx = 0 THEN rotated ELSE NoStub,
                            descriptor |-> stubResolver, started |-> now,
                            thrown |-> "none",
                            resolver |-> "pending", resolverValue |-> NoValue,
                            promise |-> "pending", promiseValue |-> NoValue])
    /\ UNCHANGED <<added, now, mStub, mRequest, mResult, cli>>

\* resolve(request, logger) up to its return or its exception.  A call's
\* record holds what its closure holds (request, stub, the implicit stub when
\* it fell back), the state of the resolver's promise and of the promise
\* returned, and as history the length of the stub list at the time of the
\* call.
resolve(request) ==
    /\ Len(calls) < MaxCalls
    /\ Len(added) + Len(calls) < MaxOps
    /\ LET found == findFirstMatch(stubs, request)
       IN  IF found.err # "none"
           THEN /\ calls' = Append(calls,
                       [request |-> request, seen |-> Len(stubs),
                        stub |-> 0, implicit |-> NoStub,
                        descriptor |-> Is(0), started |-> now,
                        thrown |-> found.err,
                        resolver |-> "none", resolverValue |-> NoValue,
                        promise |-> "none", promiseValue |-> NoValue])
                /\ UNCHANGED stubs
           ELSE LET stub == IF found.idx = 0 THEN ImplicitStub ELSE stubs[found.idx]
                    stubResolver == Shift(stub.responses)
                    rotated == [stub EXCEPT !.responses = Rotate(@)]
                IN  /\ stubs' = IF found.idx = 0 THEN stubs
                                ELSE [stubs EXCEPT ![found.idx] = rotated]
                    /\ calls' = Append(calls,
                           [request |-> request, seen |-> Len(stubs),
                            stub |-> found.idx,
                            implicit |-> IF found.idx = 0 THEN rotated ELSE NoStub,
                            descriptor |-> stubResolver, started |-> now,
                            thrown |-> "none",
                            resolver |-> "pending", resolverValue |-> NoValue,
                            promise |-> "pending", promiseValue |-> NoValue])
    /\ UNCHANGED <<added, now, mStub, mRequest, mResult, cli>>

\* the match record the done callback builds
MatchRecord(c, response) ==
    [timestamp |-> DateToJSON(now), request |-> calls[c].request, response |-> response]

\* the done callback selecting the stub again when it runs
ResolverSucceeds_reselect(c) ==
    /\ calls[c].resolver = "pending"
    /\ LET response == ResolverResponse(calls[c].descriptor, calls[c].request)
           match == MatchRecord(c, response)
           again == findFirstMatch(stubs, calls[c].request).idx
       IN  /\ stubs' = IF again = 0 THEN stubs
                       ELSE [stubs EXCEPT ![again] = PushMatch(@, match)]
           /\ calls' = [calls EXCEPT
                           ![c].implicit = IF again = 0 /\ calls[c].stub = 0
                                           THEN PushMatch(@, match) ELSE @,
                           ![c].resolver = "fulfilled",
                           ![c].resolverValue = response,
                           ![c].promise = "fulfilled",
                           ![c].promiseValue = response]
    /\ UNCHANGED <<added, now, mStub, mRequest, mResult, cli>>

\* the done callback running again for a resolver that has settled
ResolverSucceeds_again(c) ==
    /\ calls[c].resolver # "none"
    /\ LET response == ResolverResponse(calls[c].descriptor, calls[c].request)
           match == MatchRecord(c, response)
       IN  /\ stubs' = IF calls[c].stub = 0 THEN stubs
                       ELSE [stubs EXCEPT ![calls[c].stub] = PushMatch(@, match)]
           /\ calls' = [calls EXCEPT
                           ![c].implicit = IF calls[c].stub = 0 THEN PushMatch(@, match) ELSE @,
                           ![c].resolver = "fulfilled",
                           ![c].resolverValue = response,
                           ![c].promise = "fulfilled",
                           ![c].promiseValue = response]
    /\ UNCHANGED <<added, now, mStub, mRequest, mResult, cli>>

\* the done callbacks running in the order of the calls
ResolverSucceeds_inOrder(c) ==
    /\ calls[c].resolver = "pending"
    /\ \A e \in 1..(c - 1) : calls[e].resolver # "pending"
    /\ LET response == ResolverResponse(calls[c].descriptor, calls[c].request)
           match == MatchRecord(c, response)
       IN  /\ stubs' = IF calls[c].stub = 0 THEN stubs
                       ELSE [stubs EXCEPT ![calls[c].stub] = PushMatch(@, match)]
           /\ calls' = [calls EXCEPT
                           ![c].implicit = IF calls[c].stub = 0 THEN PushMatch(@, match) ELSE @,
                           ![c].resolver = "fulfilled",
                           ![c].resolverValue = response,
                           ![c].promise = "fulfilled",
                           ![c].promiseValue = response]
    /\ UNCHANGED <<added, now, mStub, mRequest, mResult, cli>>

\* the promise of resolver.resolve(...) is fulfilled with a response and the
\* first callback given to done runs
ResolverSucceeds(c) ==
    /\ calls[c].resolver = "pending"
    /\ LET response == ResolverResponse(calls[c].descriptor, calls[c].request)
           match == MatchRecord(c, response)
       IN  /\ stubs' = IF calls[c].stub = 0 THEN stubs
                       ELSE [stubs EXCEPT ![calls[c].stub] = PushMatch(@, match)]
           /\ calls' = [calls EXCEPT
                           ![c].implicit = IF calls[c].stub = 0 THEN PushMatch(@, match) ELSE @,
                           ![c].resolver = "fulfilled",
                           ![c].resolverValue = response,
                           ![c].promise = "fulfilled",
                           ![c].promiseValue = response]
    /\ UNCHANGED <<added, now, mStub, mRequest, mResult, cli>>

\* a failure that also writes a match record
ResolverFails_recording(c) ==
    /\ calls[c].resolver = "pending"
    /\ LET reason == ResolverFailure(calls[c].descriptor, calls[c].request)
           match == MatchRecord(c, reason)
       IN  /\ stubs' = IF calls[c].stub = 0 THEN stubs
                       ELSE [stubs EXCEPT ![calls[c].stub].matches = Append(@, match)]
           /\ calls' = [calls EXCEPT
                           ![c].implicit = IF calls[c].stub = 0
                                           THEN [@ EXCEPT !.matches = Append(@, match)] ELSE @,
                           ![c].resolver = "rejected",
                           ![c].resolverValue = reason,
                           ![c].promise = "rejected",
                           ![c].promiseValue = reason]
    /\ UNCHANGED <<added, now, mStub, mRequest, mResult, cli>>

\* the promise of resolver.resolve(...) is rejected with a reason and the
\* second callback given to done, deferred.reject, runs
ResolverFails(c) ==
    /\ calls[c].resolver = "pending"
    /\ LET reason == ResolverFailure(calls[c].descriptor, calls[c].request)
       IN  calls' = [calls EXCEPT ![c].resolver = "rejected",
                                  ![c].resolverValue = reason,
                                  ![c].promise = "rejected",
                                  ![c].promiseValue = reason]
    /\ UNCHANGED <<stubs, added, now, mStub, mRequest, mResult, cli>>

\* time passes
Tick ==
    /\ now < MaxClock
    /\ now' = now + 1
    /\ UNCHANGED <<stubs, calls, added, mStub, mRequest, mResult, cli>>

Next ==
    \/ \E stub \in StubInputs : addStub(stub)
    \/ \E request \in RepoRequests : resolve(request)
    \/ \E c \in 1..Len(calls) : ResolverSucceeds(c)
    \/ \E c \in 1..Len(calls) : ResolverFails(c)

\* the repository while the clock stands still
Spec == Init /\ [][Next]_vars

\* the repository with a running clock, for what is said about timestamps:
\* well-formed stubs of one descriptor each
TimedStubInputs ==
    {[predicates |-> p, responses |-> <<Is(1)>>, matches |-> <<>>] :
        p \in MatchingPredicates \cup {FieldEquals("query")}}

NextClock ==
    \/ \E stub \in TimedStubInputs : addStub(stub)
    \/ \E request \in RepoRequests : resolve(request)
    \/ \E c \in 1..Len(calls) : ResolverSucceeds(c)
    \/ \E c \in 1..Len(calls) : ResolverFails(c)
    \/ Tick

SpecClock == Init /\ [][NextClock]_vars

-----------------------------------------------------------------------------
(* The stop command of bin/mb (serverAt: stop, with processExists), run     *)
(* against the pidfile and the server process it names.  cli.pidfile is the *)
(* pid written in the pidfile, 0 when the file does not exist; cli.server   *)
(* is the pid of the running server, 0 when none runs.  Every file system   *)
(* or process call of stop is a step of its own, since the server and its   *)
(* user act between them.  Times are in milliseconds.                       *)

timeout == 1000         \* var timeout = 1000
PollInterval == 100     \* setTimeout(waitForClose, 100)

\* process.kill(pid, 0) succeeds
processExists(pid) == pid # 0 /\ cli.server = pid

\* mb stop is run: any pidfile, any server
InitStop ==
    /\ stubs = <<>>
    /\ calls = <<>>
    /\ added = <<>>
    /\ now = 0
    /\ mStub = NoStub
    /\ mRequest = <<>>
    /\ mResult = NotEvaluated
    /\ \E file \in {0, 1}, server \in {0, 1} :
           cli = [NotRun EXCEPT !.pc = "existsSync", !.pidfile = file,
                                !.server = server, !.started = 1]

\* if (!fs.existsSync(options.pidfile)) { return Q(true); }
StopExistsSync ==
    /\ cli.pc = "existsSync"
    /\ cli' = IF cli.pidfile = 0
              THEN [cli EXCEPT !.pc = "done", !.how = "no pidfile"]
              ELSE [cli EXCEPT !.pc = "readFileSync"]
    /\ UNCHANGED <<stubs, calls, added, now, mStub, mRequest, mResult>>

\* var pid = fs.readFileSync(options.pidfile): throws when the file is gone
StopReadFileSync ==
    /\ cli.pc = "readFileSync"
    /\ cli' = IF cli.pidfile = 0
              THEN [cli EXCEPT !.pc = "threw", !.how = "ENOENT"]
              ELSE [cli EXCEPT !.pc = "processExists", !.pid = cli.pidfile]
    /\ UNCHANGED <<stubs, calls, added, now, mStub, mRequest, mResult>>

\* if (!processExists(pid)) ...
StopProcessExists ==
    /\ cli.pc = "processExists"
    /\ cli' = IF processExists(cli.pid)
              THEN [cli EXCEPT !.pc = "kill"]
              ELSE [cli EXCEPT !.pc = "unlinkSync"]
    /\ UNCHANGED <<stubs, calls, added, now, mStub, mRequest, mResult>>

\* fs.unlinkSync(options.pidfile); return Q(true);
StopUnlinkSync ==
    /\ cli.pc = "unlinkSync"
    /\ cli' = IF cli.pidfile = 0
              THEN [cli EXCEPT !.pc = "threw", !.how = "ENOENT"]
              ELSE [cli EXCEPT !.pc = "done", !.pidfile = 0, !.how = "stale pidfile"]
    /\ UNCHANGED <<stubs, calls, added, now, mStub, mRequest, mResult>>

\* startTime = new Date(); process.kill(pid): throws when the process is gone,
\* else the server's SIGTERM handler starts its shutdown
StopKill ==
    /\ cli.pc = "kill"
    /\ cli' = IF processExists(cli.pid)
              THEN [cli EXCEPT !.pc = "waitForClose", !.signalled = TRUE,
                               !.shutting = TRUE, !.startTime = cli.clock]
              ELSE [cli EXCEPT !.pc = "threw", !.how = "ESRCH"]
    /\ UNCHANGED <<stubs, calls, added, now, mStub, mRequest, mResult>>

\* waitForClose with no timeout
waitForClose_forever ==
    /\ cli.pc = "waitForClose"
    /\ cli' = IF cli.pidfile # 0
              THEN [cli EXCEPT !.pc = "done", !.how = "pidfile exists"]
              ELSE [cli EXCEPT !.pc = "setTimeout", !.due = cli.clock + PollInterval]
    /\ UNCHANGED <<stubs, calls, added, now, mStub, mRequest, mResult>>

\* waitForClose: resolves the deferred when the pidfile exists or more than
\* timeout has elapsed, else runs again in 100 ms
waitForClose ==
    /\ cli.pc = "waitForClose"
    /\ LET elapsedTime == cli.clock - cli.startTime
       IN  cli' = IF cli.pidfile # 0
                  THEN [cli EXCEPT !.pc = "done", !.how = "pidfile exists"]
                  ELSE IF elapsedTime > timeout
                  THEN [cli EXCEPT !.pc = "done", !.how = "timeout"]
                  ELSE [cli EXCEPT !.pc = "setTimeout", !.due = cli.clock + PollInterval]
    /\ UNCHANGED <<stubs, calls, added, now, mStub, mRequest, mResult>>

\* the timer set by setTimeout(waitForClose, 100) fires, not before it is due
TimerFires ==
    /\ cli.pc = "setTimeout"
    /\ cli.clock >= cli.due
    /\ cli' = [cli EXCEPT !.pc = "waitForClose"]
    /\ UNCHANGED <<stubs, calls, added, now, mStub, mRequest, mResult>>

\* 100 ms pass while the timer is set
StopTick ==
    /\ cli.pc = "setTimeout"
    /\ cli.clock < MaxTicks * PollInterval
    /\ cli' = [cli EXCEPT !.clock = cli.clock + PollInterval]
    /\ UNCHANGED <<stubs, calls, added, now, mStub, mRequest, mResult>>

\* the server's user sends SIGINT: the shutdown handler runs
ServerInterrupted ==
    /\ cli.server # 0
    /\ ~cli.shutting
    /\ cli' = [cli EXCEPT !.shutting = TRUE]
    /\ UNCHANGED <<stubs, calls, added, now, mStub, mRequest, mResult>>

\* shutdown: if (fs.existsSync(options.pidfile)) { fs.unlinkSync(options.pidfile); }
ServerUnlinks ==
    /\ cli.server # 0
    /\ cli.shutting
    /\ cli.pidfile # 0
    /\ cli' = [cli EXCEPT !.pidfile = 0]
    /\ UNCHANGED <<stubs, calls, added, now, mStub, mRequest, mResult>>

\* shutdown: finally { process.exit(); }
ServerExits ==
    /\ cli.server # 0
    /\ cli.shutting
    /\ cli.pidfile = 0
    /\ cli' = [cli EXCEPT !.server = 0, !.shutting = FALSE]
    /\ UNCHANGED <<stubs, calls, added, now, mStub, mRequest, mResult>>

\* start: a new server process writes its pid to the pidfile
ServerStarts ==
    /\ cli.server = 0
    /\ cli.started < MaxPids
    /\ cli' = [cli EXCEPT !.server = cli.started + 1, !.pidfile = cli.started + 1,
                          !.started = cli.started + 1]
    /\ UNCHANGED <<stubs, calls, added, now, mStub, mRequest, mResult>>

\* the steps of the stop command and of its timer
StopRuns ==
    \/ StopExistsSync
    \/ StopReadFileSync
    \/ StopProcessExists
    \/ StopUnlinkSync
    \/ StopKill
    \/ waitForClose
    \/ TimerFires

NextStop ==
    \/ StopExistsSync
    \/ StopReadFileSync
    \/ StopProcessExists
    \/ StopUnlinkSync
    \/ StopKill
    \/ waitForClose
    \/ TimerFires
    \/ StopTick
    \/ ServerInterrupted
    \/ ServerUnlinks
    \/ ServerExits
    \/ ServerStarts

\* the stop command runs to its end, its timer fires when due and time
\* passes; the server and its user act when they will
SpecStop ==
    InitStop /\ [][NextStop]_vars /\ WF_vars(StopRuns) /\ WF_vars(StopTick)

\* stop has returned its settled promise (done) or thrown
Terminated == cli.pc \in {"done", "threw"}

\* how stop ended agrees with what it did
Outcome ==
    /\ cli.how = "no pidfile" => ~cli.signalled /\ cli.pid = 0
    /\ cli.how = "stale pidfile" => ~cli.signalled /\ cli.pid # 0
    /\ cli.how \in {"pidfile exists", "timeout"} => cli.signalled
    /\ cli.how = "timeout" => cli.clock - cli.startTime > timeout
    /\ cli.pc = "threw" => cli.how \in {"ENOENT", "ESRCH"}

\* C18 - The stop command always terminates: whatever the server and its
\* user do, stop ends; it ends without a signal sent when it found no
\* pidfile or deleted a stale one, and after a signal when its polling found
\* the pidfile to exist or more than 1000 ms to have elapsed.
C18_StopTerminates == <>(Terminated /\ Outcome)

\* stop signalled the server and gave up polling after more than 1000 ms
\* with the server still running
C18_Witness ==
    /\ cli.pc = "done"
    /\ cli.how = "timeout"
    /\ cli.signalled
    /\ cli.server = cli.pid
    /\ cli.clock - cli.startTime > timeout

-----------------------------------------------------------------------------
(* Shapes of predicates, read off the tree alone *)

\* a value that is not a mapping stands where a predicate mapping is
\* required: as the value of a top-level field, or of a key that names no
\* operator
RECURSIVE WrongShape(_, _)
WrongShape(node, top) ==
    \E i \in 1..Len(node.kv) :
        /\ top \/ ~Recognized(node.kv[i].k)
        /\ \/ node.kv[i].v.t # "object"
           \/ WrongShape(node.kv[i].v, FALSE)

Malformed(predicates) == predicates.t = "object" /\ WrongShape(predicates, TRUE)

-----------------------------------------------------------------------------
(* Claims about the repository, checked under Spec *)

\* the step is a resolve call, which appends its record to calls
IsResolveStep == Len(calls') = Len(calls) + 1

\* the calls before call c that selected stub s
EarlierOn(s, c) == {d \in 1..(c - 1) : calls[d].stub = s /\ calls[d].thrown = "none"}

\* the calls that selected stub s
CallsOn(s) == {c \in 1..Len(calls) : calls[c].stub = s /\ calls[c].thrown = "none"}

\* C1 - First-match precedence: when no predicate is malformed and at least
\* one stub matches the request, a resolve call selects the lowest-index
\* matching stub and hands the resolver the head of that stub's queue; what
\* a call selected never changes afterwards, whatever is called or added.
C1_FirstMatchPrecedence ==
    [][ /\ IsResolveStep =>
             LET call == calls'[Len(calls')]
                 evals == [i \in 1..Len(stubs) |-> stubMatches(stubs[i], call.request)]
                 matching == {i \in 1..Len(stubs) : evals[i].val}
             IN  ((\A i \in 1..Len(stubs) : evals[i].err = "none") /\ matching # {}) =>
                     /\ call.stub = Min(matching)
                     /\ call.descriptor = Head(stubs[Min(matching)].responses)
                     /\ call.resolver = "pending"
        /\ \A c \in 1..Len(calls) :
               /\ calls'[c].stub = calls[c].stub
               /\ calls'[c].descriptor = calls[c].descriptor ]_vars

\* two calls made while two matching stubs were in the list both took the first
C1_Witness ==
    /\ Len(stubs) = 2
    /\ \A i \in 1..2 : stubs[i].predicates \in MatchingPredicates
    /\ \E c \in 1..Len(calls), d \in 1..Len(calls) :
           /\ c < d
           /\ calls[c].seen = 2 /\ calls[c].stub = 1
           /\ calls[d].seen = 2 /\ calls[d].stub = 1

\* C2 - Round-robin stability: a resolve call made while no other call is
\* pending, the j-th (from 0) to select a stub configured with K
\* descriptors d0..dK-1, is issued descriptor d(j mod K).
C2_RoundRobin ==
    [][ (IsResolveStep /\ Pending = {}) =>
            LET call == calls'[Len(calls')]
                s == call.stub
            IN  (call.thrown = "none" /\ s # 0) =>
                    LET K == Len(added[s].responses)
                        j == Cardinality(CallsOn(s))
                    IN  call.descriptor = added[s].responses[(j % K) + 1] ]_vars

\* a stub configured with [d1, d2] was resolved three times: d1, d2, d1
C2_Witness ==
    /\ Len(calls) = 3
    /\ Len(added) >= 1
    /\ Len(added[1].responses) = 2
    /\ \A c \in 1..3 : calls[c].stub = 1 /\ calls[c].thrown = "none"
    /\ calls[1].promise # "pending" /\ calls[2].promise # "pending"
    /\ <<calls[1].descriptor, calls[2].descriptor, calls[3].descriptor>> = <<Is(1), Is(2), Is(1)>>

\* C3 - Concurrent rotation safety: in every state, whatever calls are
\* pending, fulfilled or rejected, the i-th call (from 0, in call order) that
\* selected a stub with K descriptors was issued d(i mod K), and the N calls
\* on the stub used each of the K positions floor(N/K) or ceil(N/K) times.
C3_ConcurrentRotation ==
    \A s \in 1..Len(stubs) :
        LET d == added[s].responses
            K == Len(d)
            N == Cardinality(CallsOn(s))
        IN  /\ \A c \in CallsOn(s) :
                   calls[c].descriptor = d[(Cardinality(EarlierOn(s, c)) % K) + 1]
            /\ \A p \in 1..K :
                   Cardinality({c \in CallsOn(s) : calls[c].descriptor = d[p]})
                       \in {N \div K, (N + K - 1) \div K}

\* three calls on one stub configured with two descriptors are pending at once
C3_Witness ==
    /\ Len(calls) = 3
    /\ Len(stubs) >= 1
    /\ Len(added[1].responses) = 2
    /\ \A c \in 1..3 : calls[c].stub = 1 /\ calls[c].resolver = "pending"

\* no stub of the list matches the request, and none is malformed
NoneMatches(list, request) ==
    \A i \in 1..Len(list) :
        /\ stubMatches(list[i], request).err = "none"
        /\ ~stubMatches(list[i], request).val

\* C4 - No-match fallback: with zero stubs, or stubs none of which matches,
\* resolve does not raise; it invokes the resolver with { is: {} } and
\* returns a promise, which is fulfilled with the resolver's response to
\* that descriptor.
C4_NoMatchFallback ==
    [][ /\ IsResolveStep =>
             LET call == calls'[Len(calls')]
             IN  NoneMatches(stubs, call.request) =>
                     /\ call.thrown = "none"
                     /\ call.stub = 0
                     /\ call.descriptor = ImplicitDescriptor
                     /\ call.resolver = "pending"
                     /\ call.promise = "pending"
        /\ \A c \in 1..Len(calls) :
               (/\ calls[c].stub = 0 /\ calls[c].thrown = "none"
                /\ calls[c].promise = "pending" /\ calls'[c].promise = "fulfilled") =>
                   calls'[c].promiseValue = ResolverResponse(ImplicitDescriptor, calls[c].request) ]_vars

\* a call on the empty repository and a call that saw a non-matching stub
\* were both fulfilled with the default response
C4_Witness ==
    /\ \E c \in 1..Len(calls) :
           /\ calls[c].seen = 0
           /\ calls[c].promise = "fulfilled"
           /\ calls[c].promiseValue.body = 0
    /\ \E c \in 1..Len(calls) :
           /\ calls[c].seen >= 1 /\ calls[c].stub = 0
           /\ calls[c].promise = "fulfilled"
           /\ calls[c].promiseValue.body = 0

\* the match history of the stub call c selected
HistoryOf(c, list, callList) ==
    IF callList[c].stub = 0 THEN callList[c].implicit.matches
    ELSE list[callList[c].stub].matches

\* C5 - Match history append: when a call's promise is fulfilled, the
\* history of the stub it selected is its previous history with one record
\* appended, holding the call's request, the response produced and a
\* timestamp no earlier than the start of the call; no other history changes.
C5_MatchHistoryAppend ==
    [][ \A c \in 1..Len(calls) :
            (calls[c].promise = "pending" /\ calls'[c].promise = "fulfilled") =>
                LET before == HistoryOf(c, stubs, calls)
                    after == HistoryOf(c, stubs', calls')
                    record == after[Len(after)]
                IN  /\ Len(after) = Len(before) + 1
                    /\ SubSeq(after, 1, Len(before)) = before
                    /\ record.request = calls[c].request
                    /\ record.response = calls'[c].resolverValue
                    /\ record.response = calls'[c].promiseValue
                    /\ TimestampLeq(DateToJSON(calls[c].started), record.timestamp)
                    /\ \A i \in 1..Len(stubs) :
                           i # calls[c].stub => stubs'[i].matches = stubs[i].matches
                    /\ \A d \in 1..Len(calls) :
                           d # c => calls'[d].implicit = calls[d].implicit ]_vars

\* a stub of a two-stub list holds two records, the second written at clock
\* 1 for a call started at clock 0
C5_Witness ==
    /\ Len(stubs) = 2
    /\ \E c \in 1..Len(calls) :
           LET s == calls[c].stub
           IN  /\ s # 0
               /\ calls[c].promise = "fulfilled"
               /\ calls[c].started = 0
               /\ Len(stubs[s].matches) = 2
               /\ stubs[s].matches[2].timestamp = DateToJSON(1)
               /\ stubs[s].matches[2].response = calls[c].promiseValue

\* C6 - Resolver failure propagation: when the resolver fails, the promise
\* of the call is rejected with the resolver's failure value and no match
\* record is written anywhere.
C6_FailurePropagation ==
    [][ \A c \in 1..Len(calls) :
            (calls[c].promise = "pending" /\ calls'[c].promise # "pending") =>
                /\ (calls'[c].resolver = "rejected") = (calls'[c].promise = "rejected")
                /\ calls'[c].promise = "rejected" =>
                       /\ calls'[c].promiseValue = ResolverFailure(calls[c].descriptor, calls[c].request)
                       /\ calls'[c].promiseValue = calls'[c].resolverValue
                       /\ \A i \in 1..Len(stubs) : stubs'[i].matches = stubs[i].matches
                       /\ \A d \in 1..Len(calls) : calls'[d].implicit = calls[d].implicit ]_vars

\* a call on a configured stub was rejected and the stub has no record
C6_Witness ==
    \E c \in 1..Len(calls) :
        /\ calls[c].stub # 0
        /\ calls[c].promise = "rejected"
        /\ calls[c].promiseValue.body = -1
        /\ stubs[calls[c].stub].matches = <<>>

\* the call saw a stub with a malformed predicate
MetMalformed(c) == \E i \in 1..calls[c].seen : Malformed(stubs[i].predicates)

\* the first such stub
FirstMalformed(c) == Min({i \in 1..calls[c].seen : Malformed(stubs[i].predicates)})

FirstMatching(list, request) ==
    LET matching == {i \in 1..Len(list) : stubMatches(list[i], request).val}
    IN  IF matching = {} THEN 0 ELSE Min(matching)

\* call c goes from pending to fulfilled in this step
Fulfils(c) == calls[c].promise = "pending" /\ calls'[c].promise = "fulfilled"

\* C11 - Snapshot selection: an addStub leaves every call as it is, pending
\* or not, and the stubs already listed; a call fulfilled later uses the
\* descriptor and writes its record on the stub chosen when it was called
\* (the implicit stub for a fallback, whatever matches by then); a resolve
\* call selects against the whole list as it is when the call is made.
C11_SnapshotSelection ==
    [][ /\ Len(stubs') = Len(stubs) + 1 =>
               /\ calls' = calls
               /\ SubSeq(stubs', 1, Len(stubs)) = stubs
        /\ \A c \in 1..Len(calls) :
               Fulfils(c) =>
                   /\ calls'[c].stub = calls[c].stub
                   /\ calls'[c].descriptor = calls[c].descriptor
                   /\ calls'[c].promiseValue = ResolverResponse(calls[c].descriptor, calls[c].request)
                   /\ \A i \in 1..Len(stubs) :
                          Len(stubs'[i].matches) =
                              Len(stubs[i].matches) + (IF i = calls[c].stub THEN 1 ELSE 0)
                   /\ calls[c].stub = 0 =>
                          Len(calls'[c].implicit.matches) = Len(calls[c].implicit.matches) + 1
        /\ IsResolveStep =>
               LET call == calls'[Len(calls')]
               IN  call.thrown = "none" => call.stub = FirstMatching(stubs, call.request) ]_vars

\* a call fell back on the empty list and was fulfilled after a matching stub
\* was added: its record is on its implicit stub, the added stub has none,
\* and a later call took the added stub
C11_Witness ==
    /\ Len(stubs) = 1
    /\ Len(calls) = 2
    /\ calls[1].seen = 0 /\ calls[1].stub = 0
    /\ calls[1].promise = "fulfilled"
    /\ calls[1].promiseValue.body = 0
    /\ Len(calls[1].implicit.matches) = 1
    /\ calls[2].seen = 1 /\ calls[2].stub = 1
    /\ calls[2].promise = "pending"
    /\ stubs[1].matches = <<>>

\* C12 - Non-blocking resolution: a call whose resolver has not completed
\* holds up no other call: in every state each pending call, whichever calls
\* made before or after it are still pending, can be fulfilled and can be
\* rejected, so completions come in any order.
C12_NonBlocking ==
    \A d \in Pending : ENABLED ResolverSucceeds(d) /\ ENABLED ResolverFails(d)

\* the second of two calls on one stub, made while the first was pending, is
\* fulfilled and recorded while the first is pending still
C12_Witness ==
    /\ Len(calls) >= 2
    /\ calls[1].stub # 0
    /\ calls[2].stub = calls[1].stub
    /\ calls[2].descriptor # calls[1].descriptor
    /\ calls[1].promise = "pending"
    /\ calls[2].promise = "fulfilled"
    /\ Len(stubs[calls[2].stub].matches) = 1

\* q is d rotated
IsRotation(q, d) ==
    /\ Len(q) = Len(d)
    /\ \E r \in 0..(Len(d) - 1) :
           \A i \in 1..Len(d) : q[i] = d[((i - 1 + r) % Len(d)) + 1]

\* C13 - Stub configuration is never corrupted: the stub list holds the
\* stubs added so far in insertion order, each with the predicates it was
\* added with and a response queue that is a rotation of its configured
\* sequence.
C13_ConfigurationKept ==
    /\ Len(stubs) = Len(added)
    /\ \A i \in 1..Len(stubs) :
           /\ stubs[i].predicates = added[i].predicates
           /\ IsRotation(stubs[i].responses, added[i].responses)

\* two different stubs are listed, the first with its queue of two rotated,
\* after a resolver failure
C13_Witness ==
    /\ Len(stubs) = 2
    /\ stubs[1].predicates # stubs[2].predicates
    /\ Len(stubs[1].responses) = 2
    /\ stubs[1].responses # added[1].responses
    /\ \E c \in 1..Len(calls) : calls[c].promise = "rejected"

\* every promise is in the state of its resolver's promise, with its value,
\* and the histories hold one record per fulfilled call
SettledWithResolver ==
    /\ \A c \in 1..Len(calls) :
           calls[c].thrown = "none" =>
               /\ calls[c].promise = calls[c].resolver
               /\ calls[c].promiseValue = calls[c].resolverValue
               /\ calls[c].stub = 0 =>
                      Len(calls[c].implicit.matches) =
                          (IF calls[c].promise = "fulfilled" THEN 1 ELSE 0)
    /\ \A s \in 1..Len(stubs) :
           Len(stubs[s].matches) =
               Cardinality({c \in CallsOn(s) : calls[c].promise = "fulfilled"})

\* C14 - Single completion: the promise of a call is settled exactly when
\* the resolver's promise is, with the same outcome and value; once settled
\* it never changes; a stub holds one record per fulfilled call on it, so
\* none for a call that is pending.
C14_SingleCompletion ==
    [][ /\ SettledWithResolver'
        /\ \A c \in 1..Len(calls) :
               calls[c].promise \in {"fulfilled", "rejected"} => calls'[c] = calls[c] ]_vars

\* of three calls on one stub one is pending, one fulfilled and one rejected
C14_Witness ==
    /\ Len(calls) = 3
    /\ \A c \in 1..3 : calls[c].stub = 1
    /\ {calls[c].promise : c \in 1..3} = {"pending", "fulfilled", "rejected"}
    /\ Len(stubs[1].matches) = 1

\* C15 as stated - whenever a stub of the list, at any position, carries a
\* malformed predicate, a resolve call fails with ValidationError.
C15_AlwaysValidationError ==
    \A c \in 1..Len(calls) : MetMalformed(c) => calls[c].thrown = "ValidationError"

\* C16 - State unchanged on validation failure: a resolve call that throws
\* during selection leaves the stub list, every queue and every history as
\* they were, leaves the earlier calls as they were and does not invoke the
\* resolver.
C16_UnchangedOnValidationFailure ==
    [][ (IsResolveStep /\ calls'[Len(calls')].thrown # "none") =>
            /\ stubs' = stubs
            /\ added' = added
            /\ SubSeq(calls', 1, Len(calls)) = calls
            /\ calls'[Len(calls')].resolver = "none"
            /\ calls'[Len(calls')].implicit = NoStub ]_vars

\* a call threw ValidationError on a list whose first stub matches and has a
\* queue of two, which is as configured
C16_Witness ==
    /\ Len(stubs) = 2
    /\ Len(calls) = 1
    /\ stubs[1].predicates \in MatchingPredicates
    /\ Len(stubs[1].responses) = 2
    /\ stubs[1].responses = added[1].responses
    /\ calls[1].seen = 2
    /\ calls[1].thrown = "ValidationError"

\* C17 - The no-match fallback touches no configured state: a call that
\* falls back leaves the stub list as it is and is issued { is: {} } from an
\* implicit stub of its own with no history; when it settles, the stub list
\* and the other calls' implicit stubs are as before.
C17_FallbackTouchesNothing ==
    [][ /\ IsResolveStep =>
               LET call == calls'[Len(calls')]
               IN  (call.thrown = "none" /\ call.stub = 0) =>
                       /\ stubs' = stubs
                       /\ call.descriptor = ImplicitDescriptor
                       /\ call.implicit.responses = <<ImplicitDescriptor>>
                       /\ call.implicit.matches = <<>>
        /\ \A c \in 1..Len(calls) :
               (/\ calls[c].stub = 0 /\ calls[c].thrown = "none"
                /\ calls[c].promise = "pending" /\ calls'[c].promise # "pending") =>
                   /\ stubs' = stubs
                   /\ \A d \in 1..Len(calls) : d # c => calls'[d] = calls[d] ]_vars

\* two calls fell back on a list of one stub, the second after the first was
\* fulfilled or not: both were issued { is: {} } and the stub is untouched
C17_Witness ==
    /\ Len(stubs) = 1
    /\ Len(calls) >= 2
    /\ \A c \in 1..2 :
           /\ calls[c].seen = 1 /\ calls[c].stub = 0
           /\ calls[c].descriptor = ImplicitDescriptor
           /\ calls[c].promise = "fulfilled"
           /\ Len(calls[c].implicit.matches) = 1
    /\ stubs[1] = added[1]

-----------------------------------------------------------------------------
(* Claims about matching, checked under SpecMatch *)

Evaluated == mResult # NotEvaluated

\* the entry is a key that names no operator with an argument that is not a mapping
InvalidEntry(e) == ~Recognized(e.k) /\ e.v.t # "object"

\* the entry evaluates to true or false
BooleanEntry(e) == Recognized(e.k) \/ (e.v.t = "object" /\ ~WrongShape(e.v, FALSE))

\* the predicates are { field: node } where node has several keys, at least
\* one of them invalid, every other one evaluating to true or false
SeveralKeysOneInvalid(predicates) ==
    /\ predicates.t = "object"
    /\ Len(predicates.kv) = 1
    /\ LET node == predicates.kv[1].v
       IN  /\ node.t = "object"
           /\ Len(node.kv) >= 2
           /\ \E i \in 1..Len(node.kv) : InvalidEntry(node.kv[i])
           /\ \A i \in 1..Len(node.kv) : InvalidEntry(node.kv[i]) \/ BooleanEntry(node.kv[i])

\* C8 as stated - Exhaustive validation: matching a node with several keys,
\* at least one naming no operator and having a non-mapping argument, raises
\* ValidationError whatever the order of the keys and the results of the
\* sibling keys.
C8_ExhaustiveValidation ==
    (Evaluated /\ SeveralKeysOneInvalid(mStub.predicates)) => mResult.err = "ValidationError"

\* C9 as stated - Wrong-shape predicate: whenever a value that is not a
\* mapping stands where a predicate mapping is required, at the top level or
\* at a nested field level, matching fails with a ValidationError and with
\* no other kind of error.
C9_WrongShapeValidationError ==
    (Evaluated /\ Malformed(mStub.predicates)) => mResult.err = "ValidationError"

\* 'k1.k2.....kn'
RECURSIVE Join(_)
Join(path) ==
    IF Len(path) = 1 THEN path[1]
    ELSE Join(SubSeq(path, 1, Len(path) - 1)) \o "." \o path[Len(path)]

\* the operators found below a path of keys, in key order, each with the
\* field name the path composes to
RECURSIVE ExpectedTrace(_, _, _)
ExpectedTrace(path, node, n) ==
    IF n = 0 THEN <<>>
    ELSE ExpectedTrace(path, node, n - 1) \o
         (IF Len(path) > 0 /\ Recognized(node.kv[n].k)
          THEN <<Invocation(node.kv[n].k, Join(path), node.kv[n].v)>>
          ELSE ExpectedTrace(Append(path, node.kv[n].k), node.kv[n].v, Len(node.kv[n].v.kv)))

\* C10 - Nested field addressing: for predicates whose keys along every
\* path are not operator names and have mappings as values, the operators
\* invoked are exactly those found below the paths, each with the field name
\* 'k1.k2.....kn' of its path, and the result is the AND of all their results.
C10_NestedFieldAddressing ==
    (/\ Evaluated
     /\ mStub.predicates.t = "object"
     /\ ~Malformed(mStub.predicates)
     /\ \A i \in 1..Len(mStub.predicates.kv) : ~Recognized(mStub.predicates.kv[i].k)) =>
        /\ mResult.err = "none"
        /\ mResult.trace = ExpectedTrace(<<>>, mStub.predicates, Len(mStub.predicates.kv))
        /\ mResult.val = \A i \in 1..Len(mResult.trace) :
                             Operator(mResult.trace[i].op, mResult.trace[i].field,
                                      mResult.trace[i].arg, mRequest)

\* an operator two levels down was invoked with field 'path.x' and held
C10_Witness ==
    /\ Evaluated
    /\ mResult.err = "none"
    /\ mResult.val
    /\ \E i \in 1..Len(mResult.trace) : mResult.trace[i].field = "path.x"

====
